---------------------------- MODULE Spec2Model ----------------------------
(***************************************************************************)
(* A model of examples/uncertainty_weighted_loss.ipynb: the seeded data    *)
(* generator (gen_data, shuffle_data), the uncertainty-weighted loss that  *)
(* the training loop computes inline (the "loss combiner"), and the        *)
(* training loop itself, followed by the last cell's standard deviations.  *)
(*                                                                         *)
(* Numbers.  The loss mixes rationals with logarithms: with log_var_i a    *)
(* multiple k*ln(2) of ln 2, exp(-log_var_i) is the rational 2^(-k) and    *)
(* the additive term is k*ln(2).  Since ln 2 is irrational, a value        *)
(* n/d + (l/d)*ln(2) has exactly one reduced triple (n, l, d), d > 0, so   *)
(* the record [n, l, d] is an exact arithmetic for everything the loop     *)
(* computes (float32 rounding is not modelled; the underflow of exp is).   *)
(*                                                                         *)
(* Indices.  Python's task index i in 0..T-1 is position i+1 of the        *)
(* sequences below; tensors of shape (B, D) are sequences of B rows of D   *)
(* entries.                                                                *)
(***************************************************************************)
EXTENDS Integers, Sequences, FiniteSets, Bags, TLC

\* ------------------------------------------------------------------ bounds
MaxSeed == 2      \* seeds 0..MaxSeed of the random source
MaxT == 2         \* tasks handed to the loss combiner on its own
MaxB == 2         \* batch rows handed to the loss combiner on its own
MaxD == 3         \* output dimensions of a prediction or target
MaxLV == 1        \* log_var ranges over k*ln(2), k in -MaxLV..MaxLV
MaxN == 4         \* N, the number of samples, is MaxN - 1 or MaxN (source: 100)
batch_size == 2   \* source: 20
nb_epoch == 2     \* source: 2000

\* ------------------------------------------------------- program constants
input_size == 1
hidden_size == 2
output1_size == 1
output2_size == 1
num_tasks == 2
w1 == 2
b1 == 8
sigma1 == 10
w2 == 3
b2 == 3
sigma2 == 1

\* ------------------------------------------------- exact numbers (n + l*ln2)/d
Abs(x) == IF x < 0 THEN -x ELSE x

RECURSIVE GCD(_, _)
GCD(a, b) == IF b = 0 THEN a ELSE GCD(b, a % b)

Norm(n, l, d) ==
    LET g == GCD(GCD(Abs(n), Abs(l)), d)
    IN  [n |-> n \div g, l |-> l \div g, d |-> d \div g]

FromInt(x) == [n |-> x, l |-> 0, d |-> 1]

\* k*ln(2): the value of a log-variance parameter
LogVal(k) == [n |-> 0, l |-> k, d |-> 1]

NAdd(a, b) == Norm(a.n * b.d + b.n * a.d, a.l * b.d + b.l * a.d, a.d * b.d)

NNeg(a) == [n |-> -a.n, l |-> -a.l, d |-> a.d]

\* a * (p / q), q > 0
NScale(a, p, q) == Norm(a.n * p, a.l * p, a.d * q)

RECURSIVE Pow2(_)
Pow2(k) == IF k = 0 THEN 1 ELSE 2 * Pow2(k - 1)

\* mutant: the power of two taken in integer arithmetic, 1 // 2^k
ExpIntegerDivision(a) ==
    IF a.l >= 0 THEN [n |-> Pow2(a.l), l |-> 0, d |-> 1]
    ELSE [n |-> 1 \div Pow2(-a.l), l |-> 0, d |-> 1]

\* torch.exp on a value k*ln(2): 2^k.  The tensors are float32, whose
\* smallest positive value is 2^-149: below it the result is 0.
Exp(a) == IF a.l >= 0 THEN [n |-> Pow2(a.l), l |-> 0, d |-> 1]
          ELSE IF a.l < -149 THEN [n |-> 0, l |-> 0, d |-> 1]
          ELSE [n |-> 1, l |-> 0, d |-> Pow2(-a.l)]

\* x ** 0.5 of a value that is not a square in general: the non-negative
\* number whose square is a
Sqrt(a) == [sq |-> a]


RECURSIVE NSum(_)
NSum(s) == IF s = <<>> THEN FromInt(0) ELSE NAdd(s[1], NSum(Tail(s)))

\* ------------------------------------------------------ the random source
\* np.random's generator is a deterministic function of its state.  The
\* model keeps that and nothing else of MT19937: a full-period congruential
\* generator on 32 states, one state step per variate.
SeedState(seed) == seed % 32

\* every state the generator can be in
RngStates == 0..31

\* mutant: the seeding call left out, the generator keeps the state it had
np_random_seed_skipped(st, sd) == st

\* np.random.seed(sd) on a generator in state st
np_random_seed(st, sd) == SeedState(sd)

RngNext(st) == (5 * st + 3) % 32

RECURSIVE StreamAt(_, _)
\* the state after k variates have been drawn from state st
StreamAt(st, k) == IF k = 0 THEN st ELSE StreamAt(RngNext(st), k - 1)

\* the variate a state yields (a small integer stands for a normal deviate)
Variate(st) == (st \div 8) - 1

\* np.random.randn(rows, cols): rows*cols variates in row-major order;
\* returns the array and the state left behind
Randn(st, rows, cols) ==
    [a  |-> [n \in 1..rows |->
               [d \in 1..cols |-> Variate(StreamAt(st, (n - 1) * cols + d))]],
     st |-> StreamAt(st, rows * cols)]

\* ------------------------------------------------------------- tensors
\* The size a dimension takes when sizes a and b are broadcast together;
\* 0 when they cannot be (torch raises RuntimeError).
BroadcastDim(a, b) ==
    IF a = b THEN a ELSE IF a = 1 THEN b ELSE IF b = 1 THEN a ELSE 0

\* entry (n, d) of t seen under broadcasting
At(t, n, d) == t[IF Len(t) = 1 THEN 1 ELSE n][IF Len(t[1]) = 1 THEN 1 ELSE d]

\* y_hat[i] - y[i]
TSub(a, b) ==
    LET B == BroadcastDim(Len(a), Len(b))
        D == BroadcastDim(Len(a[1]), Len(b[1]))
    IN  IF B = 0 \/ D = 0 THEN [err |-> TRUE]
        ELSE [err |-> FALSE,
              t   |-> [n \in 1..B |-> [d \in 1..D |-> At(a, n, d) - At(b, n, d)]]]

\* mutant: the absolute error in place of the squared error
TSquareAsAbs(t) == [n \in 1..Len(t) |-> [d \in 1..Len(t[1]) |-> Abs(t[n][d])]]

\* t ** 2.
TSquare(t) == [n \in 1..Len(t) |-> [d \in 1..Len(t[1]) |-> t[n][d] * t[n][d]]]

\* precision * diff + log_vars[i]: the two scalars broadcast over diff
WeightedPlusLogVar(precision, diff, lv) ==
    [n \in 1..Len(diff) |->
       [d \in 1..Len(diff[1]) |-> NAdd(NScale(precision, diff[n][d], 1), lv)]]

\* torch.sum(t, -1)
SumLastDim(t) == [n \in 1..Len(t) |-> NSum(t[n])]

\* loss += v, with loss the Python int 0 (here <<>>) before the first task
AddInto(loss, v) ==
    IF loss = <<>> THEN [err |-> FALSE, t |-> v]
    ELSE IF Len(v) = Len(loss) \/ Len(v) = 1
         THEN [err |-> FALSE,
               t   |-> [n \in 1..Len(loss) |->
                          NAdd(loss[n], v[IF Len(v) = 1 THEN 1 ELSE n])]]
         ELSE [err |-> TRUE]

\* torch.mean(loss)
Mean(loss) == NScale(NSum(loss), 1, Len(loss))

\* ------------------------------------------------------ the loss combiner
\* mutant: log_vars[i] added after the sum over the output dimensions, so
\* that it counts once per example
TaskLossLogVarOnce(y_hat, y, lvs, i) ==
    LET precision == Exp(NNeg(LogVal(lvs[i])))
        sub       == TSub(y_hat[i], y[i])
    IN  IF sub.err THEN [err |-> TRUE]
        ELSE [err |-> FALSE,
              t   |-> [n \in 1..Len(sub.t) |->
                         NAdd(NSum([d \in 1..Len(sub.t[1]) |->
                                      NScale(precision, TSquare(sub.t)[n][d], 1)]),
                              LogVal(lvs[i]))]]

\* precision = torch.exp(-log_vars[i])
Precision(lvs, i) == Exp(NNeg(LogVal(lvs[i])))

\* One pass of the body of "for i in range(len(y))": the per-example loss
\* of task i (position i), or an error.  lvs[i] is k with log_vars[i] = k*ln2.
TaskLoss(y_hat, y, lvs, i) ==
    LET precision == Precision(lvs, i)
        sub       == TSub(y_hat[i], y[i])
    IN  IF sub.err THEN [err |-> TRUE]
        ELSE [err |-> FALSE,
              t   |-> SumLastDim(WeightedPlusLogVar(precision, TSquare(sub.t),
                                                    LogVal(lvs[i])))]

RECURSIVE LossLoop(_, _, _, _, _)
\* the for loop from task position i on, loss being the accumulator so far
LossLoop(y_hat, y, lvs, i, loss) ==
    IF i > Len(y) THEN [err |-> FALSE, t |-> loss]
    ELSE LET tl == TaskLoss(y_hat, y, lvs, i)
         IN  IF tl.err THEN [err |-> TRUE]
             ELSE LET acc == AddInto(loss, tl.t)
                  IN  IF acc.err THEN [err |-> TRUE]
                      ELSE LossLoop(y_hat, y, lvs, i + 1, acc.t)

\* loss = 0; for ...: loss += ...; loss = torch.mean(loss)
CombineLoss(y_hat, y, lvs) ==
    LET r == LossLoop(y_hat, y, lvs, 1, <<>>)
    IN  IF r.err THEN [err |-> TRUE] ELSE [err |-> FALSE, v |-> Mean(r.t)]


\* ------------------------------------------------------- data generation
\* a*c + b + sigma*e for arrays a (N, input_size), e (N, out_size): X.dot(w)
\* with a scalar w scales every entry, and the sum broadcasts
Affine(a, w, b, sigma, e) ==
    [n \in 1..BroadcastDim(Len(a), Len(e)) |->
       [d \in 1..BroadcastDim(Len(a[1]), Len(e[1])) |->
          At(a, n, d) * w + b + sigma * At(e, n, d)]]

\* mutant: the noise drawn for Y1 used again for Y2
gen_data_shared_noise(Nn, st) ==
    LET rx == Randn(st, Nn, input_size)
        r1 == Randn(rx.st, Nn, output1_size)
    IN  [X  |-> rx.a,
         Y1 |-> Affine(rx.a, w1, b1, sigma1, r1.a),
         Y2 |-> Affine(rx.a, w2, b2, sigma2, r1.a),
         st |-> r1.st]

\* gen_data(N) run from generator state st; st is the state left behind
gen_data(Nn, st) ==
    LET rx == Randn(st, Nn, input_size)
        r1 == Randn(rx.st, Nn, output1_size)
        r2 == Randn(r1.st, Nn, output2_size)
    IN  [X  |-> rx.a,
         Y1 |-> Affine(rx.a, w1, b1, sigma1, r1.a),
         Y2 |-> Affine(rx.a, w2, b2, sigma2, r2.a),
         st |-> r2.st]

Swap(s, p, q) == [s EXCEPT ![p] = s[q], ![q] = s[p]]

RECURSIVE FisherYates(_, _, _)
\* np.random.shuffle(s): for p from the last position down to the second,
\* swap position p with a position drawn from 1..p
FisherYates(s, p, st) ==
    IF p < 2 THEN [s |-> s, st |-> st]
    ELSE LET st1 == RngNext(st)
         IN  FisherYates(Swap(s, p, 1 + (st1 % p)), p - 1, st1)

\* np.arange(X.shape[0]), as positions
Arange(n) == [k \in 1..n |-> k]

\* a[s]: fancy indexing by an index array
Take(a, s) == [k \in 1..Len(s) |-> a[s[k]]]

\* the index array shuffle_data draws for arrays of n rows
ShufflePerm(n, st) == FisherYates(Arange(n), n, st)

\* mutant: Y2 left in its old order
shuffle_data_unpaired(Xa, Y1a, Y2a, st) ==
    LET r == ShufflePerm(Len(Xa), st)
    IN  [X  |-> Take(Xa, r.s), Y1 |-> Take(Y1a, r.s), Y2 |-> Y2a,
         s  |-> r.s, st |-> r.st]

shuffle_data(Xa, Y1a, Y2a, st) ==
    LET r == ShufflePerm(Len(Xa), st)
    IN  [X  |-> Take(Xa, r.s), Y1 |-> Take(Y1a, r.s), Y2 |-> Take(Y2a, r.s),
         s  |-> r.s, st |-> r.st]

\* ------------------------------------------------------------ the network
RECURSIVE Dot(_, _)
Dot(u, v) == IF u = <<>> THEN 0 ELSE u[1] * v[1] + Dot(Tail(u), Tail(v))

\* nn.Linear with weight w (out x in) and bias b (out) on x (rows x in)
Linear(w, b, x) ==
    [n \in 1..Len(x) |-> [o \in 1..Len(w) |-> Dot(w[o], x[n]) + b[o]]]

ReLU(x) ==
    [n \in 1..Len(x) |-> [d \in 1..Len(x[1]) |-> IF x[n][d] > 0 THEN x[n][d] ELSE 0]]

\* The values the linear layers' parameters range over: the exact solution
\* (relu(x) - relu(-x) = x gives 2x + 8 and 3x + 3) and one other point.
WeightSpace ==
    { [in_w |-> << <<1>>, <<-1>> >>, in_b |-> <<0, 0>>,
       l1_w |-> << <<w1, -w1>> >>,   l1_b |-> <<b1>>,
       l2_w |-> << <<w2, -w2>> >>,   l2_b |-> <<b2>>],
      [in_w |-> << <<1>>, <<0>> >>,  in_b |-> <<0, 1>>,
       l1_w |-> << <<1, 0>> >>,      l1_b |-> <<0>>,
       l2_w |-> << <<0, 1>> >>,      l2_b |-> <<0>>] }

\* mutant: MultiLoss anchored to ['Lin2', 'Lin1']
HeadOutputsSwapped(w, x) ==
    LET h == ReLU(Linear(w.in_w, w.in_b, x))
    IN  << Linear(w.l2_w, w.l2_b, h), Linear(w.l1_w, w.l1_b, h) >>

\* the graph of "tasks": InputTask feeds Lin1 and Lin2, whose outputs
\* MultiLoss receives in its anchor order ['Lin1', 'Lin2']
HeadOutputs(w, x) ==
    LET h == ReLU(Linear(w.in_w, w.in_b, x))
    IN  << Linear(w.l1_w, w.l1_b, h), Linear(w.l2_w, w.l2_b, h) >>

\* ---------------------------------------------------------------- state
VARIABLES
    pc,             \* the statement the notebook is at
    seed,           \* the argument of np.random.seed
    rng,            \* the state of np.random's generator
    N,              \* number of samples
    X, Y1, Y2,      \* the data arrays, reassigned by every shuffle
    weights,        \* the parameters of InputTask, Lin1 and Lin2
    self_log_vars,  \* MultiTaskLossWrapper.log_vars: k for the value k*ln2
    opt_grads,      \* the .grad buffers: the batches whose backward pass
                    \* has accumulated into them since they were last zeroed
    epoch_it, j_it, \* the next value of range(nb_epoch), range(N//batch_size)
    i, j,           \* the loop variables (i is also the task loop's)
    epoch_loss, losses,
    X_, y, y_hat, log_vars, loss,
    events,         \* history: the calls made in the current batch step
    gen0,           \* history: the rows gen_data returned
    steps, shuffles,\* history: optimizer steps and shuffles so far
    batch_losses,   \* history: per epoch, the batch losses computed in it
    precisions,     \* history: the precision of each pass of the latest task loop
    epoch_batches,  \* history: the (X_, target1, target2) of the epoch so far
    stds,           \* std_1, std_2 of the last cell
    runs            \* two executions of the data pipeline side by side

dataVars == <<seed, rng, N, X, Y1, Y2, gen0, shuffles>>
modelVars == <<weights, self_log_vars, opt_grads, steps>>
loopVars == <<epoch_it, j_it, i, j, epoch_loss, losses>>
batchVars == <<X_, y, y_hat, log_vars, loss>>
histVars == <<precisions, epoch_batches>>
vars == <<pc, dataVars, modelVars, loopVars, batchVars, events, batch_losses,
          histVars, stds, runs>>

NoWeights == [in_w |-> <<>>, in_b |-> <<>>, l1_w |-> <<>>, l1_b |-> <<>>,
              l2_w |-> <<>>, l2_b |-> <<>>]

\* a name bound to no tensor yet / to the parameter object itself
Unbound == [ref |-> FALSE, val |-> <<>>]
ParamRef == [ref |-> TRUE, val |-> <<>>]

\* the values a log_vars name denotes now
Deref(lv) == IF lv.ref THEN self_log_vars ELSE lv.val

Min(a, b) == IF a < b THEN a ELSE b

\* mutant: the upper end of the slice included
SliceUpperIncluded(a, lo, hi) == SubSeq(a, lo + 1, Min(hi + 1, Len(a)))

\* a[lo:hi] on rows (0-based, hi exclusive, clipped to the array)
Slice(a, lo, hi) == SubSeq(a, lo + 1, Min(hi, Len(a)))

\* the rows (X[n], Y1[n], Y2[n])
Rows(Xa, Y1a, Y2a) == [n \in 1..Len(Xa) |-> <<Xa[n], Y1a[n], Y2a[n]>>]

\* ------------------------------------------------------ the training run
\* nn.Parameter(torch.zeros((num_tasks)))
InitLogVars == [t \in 1..num_tasks |-> 0]

\* model = MTLModel(tasks, ...); optimizer = optim.Adam(model.parameters())
BuildModel ==
    /\ pc = "build"
    /\ weights' \in WeightSpace
    /\ self_log_vars' = InitLogVars
    /\ opt_grads' = <<>>
    /\ pc' = "gen"
    /\ UNCHANGED <<dataVars, steps, loopVars, batchVars, events, batch_losses,
                   histVars, stds, runs>>

\* X, Y1, Y2 = gen_data(N); losses = []
GenData ==
    /\ pc = "gen"
    /\ LET g == gen_data(N, rng)
       IN  /\ X' = g.X /\ Y1' = g.Y1 /\ Y2' = g.Y2 /\ rng' = g.st
           /\ gen0' = Rows(g.X, g.Y1, g.Y2)
    /\ losses' = <<>>
    /\ epoch_it' = 0
    /\ pc' = "epoch"
    /\ UNCHANGED <<seed, N, shuffles, modelVars, j_it, i, j, epoch_loss,
                   batchVars, events, batch_losses, histVars, stds, runs>>

\* mutant: the loss wrapper built anew at the start of every epoch
EpochHeadRebuild ==
    /\ pc = "epoch"
    /\ epoch_it < nb_epoch
    /\ i' = epoch_it
    /\ epoch_it' = epoch_it + 1
    /\ epoch_loss' = FromInt(0)
    /\ batch_losses' = Append(batch_losses, <<>>)
    /\ epoch_batches' = <<>>
    /\ self_log_vars' = InitLogVars
    /\ pc' = "shuffle"
    /\ UNCHANGED <<dataVars, weights, opt_grads, steps, j_it, j, losses,
                   batchVars, events, precisions, stds, runs>>

\* mutant: the accumulator not reset, the epoch's loss carried into the next
EpochHeadNoReset ==
    /\ pc = "epoch"
    /\ epoch_it < nb_epoch
    /\ i' = epoch_it
    /\ epoch_it' = epoch_it + 1
    /\ batch_losses' = Append(batch_losses, <<>>)
    /\ epoch_batches' = <<>>
    /\ pc' = "shuffle"
    /\ UNCHANGED <<dataVars, modelVars, j_it, j, epoch_loss, losses, batchVars,
                   events, precisions, stds, runs>>

\* mutant: the epoch loop counting in i itself (i = 0; while i < nb_epoch:
\* ...; i += 1), so that it resumes from the value the task loop left in i
EpochHeadSharedCounter ==
    /\ pc = "epoch"
    /\ epoch_it < nb_epoch
    /\ i' = i + 1
    /\ epoch_it' = i + 2
    /\ epoch_loss' = FromInt(0)
    /\ batch_losses' = Append(batch_losses, <<>>)
    /\ epoch_batches' = <<>>
    /\ pc' = "shuffle"
    /\ UNCHANGED <<dataVars, modelVars, j_it, j, losses, batchVars, events,
                   precisions, stds, runs>>

\* for i in range(nb_epoch): epoch_loss = 0
EpochHead ==
    /\ pc = "epoch"
    /\ epoch_it < nb_epoch
    /\ i' = epoch_it
    /\ epoch_it' = epoch_it + 1
    /\ epoch_loss' = FromInt(0)
    /\ batch_losses' = Append(batch_losses, <<>>)
    /\ epoch_batches' = <<>>
    /\ pc' = "shuffle"
    /\ UNCHANGED <<dataVars, modelVars, j_it, j, losses, batchVars, events,
                   precisions, stds, runs>>

\* range(nb_epoch) is exhausted
EpochsDone ==
    /\ pc = "epoch"
    /\ epoch_it >= nb_epoch
    /\ pc' = "done"
    /\ UNCHANGED <<dataVars, modelVars, loopVars, batchVars, events, batch_losses,
                   histVars, stds, runs>>

\* X, Y1, Y2 = shuffle_data(X, Y1, Y2)
Shuffle ==
    /\ pc = "shuffle"
    /\ LET r == shuffle_data(X, Y1, Y2, rng)
       IN  X' = r.X /\ Y1' = r.Y1 /\ Y2' = r.Y2 /\ rng' = r.st
    /\ shuffles' = shuffles + 1
    /\ j_it' = 0
    /\ pc' = "batch"
    /\ UNCHANGED <<seed, N, gen0, modelVars, epoch_it, i, j, epoch_loss, losses,
                   batchVars, events, batch_losses, histVars, stds, runs>>

\* mutant: the batch count rounded up
NumBatchesCeil == (N + batch_size - 1) \div batch_size

\* N//batch_size
NumBatches == N \div batch_size

\* for j in range(N//batch_size)
BatchHead ==
    /\ pc = "batch"
    /\ j_it < NumBatches
    /\ j' = j_it
    /\ j_it' = j_it + 1
    /\ events' = <<>>
    /\ pc' = "zero_grad"
    /\ UNCHANGED <<dataVars, modelVars, epoch_it, i, epoch_loss, losses,
                   batchVars, batch_losses, histVars, stds, runs>>

\* range(N//batch_size) is exhausted: losses.append(epoch_loss * batch_size / N)
AppendLoss ==
    /\ pc = "batch"
    /\ j_it >= NumBatches
    /\ losses' = Append(losses, NScale(epoch_loss, batch_size, N))
    /\ pc' = "epoch"
    /\ UNCHANGED <<dataVars, modelVars, epoch_it, j_it, i, j, epoch_loss,
                   batchVars, events, batch_losses, histVars, stds, runs>>

\* mutant: the gradient buffers not cleared
ZeroGradNoClear ==
    /\ pc = "zero_grad"
    /\ events' = Append(events, "zero_grad")
    /\ pc' = "forward"
    /\ UNCHANGED <<dataVars, modelVars, loopVars, batchVars, batch_losses,
                   histVars, stds, runs>>

\* optimizer.zero_grad()
ZeroGrad ==
    /\ pc = "zero_grad"
    /\ opt_grads' = <<>>
    /\ events' = Append(events, "zero_grad")
    /\ pc' = "forward"
    /\ UNCHANGED <<dataVars, weights, self_log_vars, steps, loopVars, batchVars,
                   batch_losses, histVars, stds, runs>>

\* mutant: forward returns a copy of the parameter made on the first call
\* and the same copy on every later call
ForwardLogVarsCached ==
    IF log_vars = Unbound THEN [ref |-> FALSE, val |-> self_log_vars] ELSE log_vars

\* mutant: forward returns a fresh copy of the parameter (detach().clone())
ForwardLogVarsSnapshot == [ref |-> FALSE, val |-> self_log_vars]

\* what MultiTaskLossWrapper.forward returns for log_vars: self.log_vars
ForwardLogVars == ParamRef

\* X_, target1, target2 = the batch's slices; y = [target1, target2];
\* multi_loss_out, _, _ = model(X_); log_vars, y_hat = multi_loss_out[0]
Forward ==
    /\ pc = "forward"
    /\ LET xs == Slice(X, j * batch_size, (j + 1) * batch_size)
       IN  /\ X_' = xs
           /\ y_hat' = HeadOutputs(weights, xs)
    /\ y' = << Slice(Y1, j * batch_size, (j + 1) * batch_size),
               Slice(Y2, j * batch_size, (j + 1) * batch_size) >>
    /\ log_vars' = ForwardLogVars
    /\ epoch_batches' = Append(epoch_batches, <<X_', y'[1], y'[2]>>)
    /\ events' = Append(events, "forward")
    /\ pc' = "loss"
    /\ UNCHANGED <<dataVars, modelVars, loopVars, loss, batch_losses, precisions,
                   stds, runs>>

\* the run is at "loss = 0", about to compute the batch's loss
AtLoss == pc = "loss"

\* loss = 0; for i in range(len(y)): ...; loss = torch.mean(loss)
\* A RuntimeError raised by a tensor operation ends the run.
ComputeLoss ==
    /\ AtLoss
    /\ loss' = CombineLoss(y_hat, y, Deref(log_vars))
    /\ pc' = IF loss'.err THEN "raised" ELSE "accum"
    /\ batch_losses' =
         IF loss'.err THEN batch_losses
         ELSE [batch_losses EXCEPT ![Len(batch_losses)] = Append(@, loss'.v)]
    /\ precisions' =
         IF loss'.err THEN precisions
         ELSE [t \in 1..Len(y) |-> Precision(Deref(log_vars), t)]
    /\ i' = Len(y) - 1
    /\ events' = Append(events, "loss")
    /\ UNCHANGED <<dataVars, modelVars, epoch_it, j_it, j, epoch_loss, losses,
                   X_, y, y_hat, log_vars, epoch_batches, stds, runs>>

\* epoch_loss += loss.item()
AccumulateLoss ==
    /\ pc = "accum"
    /\ epoch_loss' = NAdd(epoch_loss, loss.v)
    /\ pc' = "backward"
    /\ UNCHANGED <<dataVars, modelVars, epoch_it, j_it, i, j, losses, batchVars,
                   events, batch_losses, histVars, stds, runs>>

\* loss.backward(): the gradients of this batch's loss are added to .grad
Backward ==
    /\ pc = "backward"
    /\ opt_grads' = Append(opt_grads, <<epoch_it - 1, j>>)
    /\ events' = Append(events, "backward")
    /\ pc' = "step"
    /\ UNCHANGED <<dataVars, weights, self_log_vars, steps, loopVars, batchVars,
                   batch_losses, histVars, stds, runs>>

\* The values Adam may leave in log_vars: every entry stays or moves one unit
\* (ln 2) up or down, inside the modelled range.
LogVarMoves(lv) ==
    { m \in [1..Len(lv) -> -MaxLV..MaxLV] :
        \A t \in 1..Len(lv) : m[t] - lv[t] \in {-1, 0, 1} }

\* optimizer.step(): Adam updates, in place, every parameter that has a
\* gradient.  Adam is a collaborator outside the notebook: the model lets
\* it leave any modelled value.
OptimizerStep ==
    /\ pc = "step"
    /\ IF opt_grads = <<>>
       THEN UNCHANGED <<weights, self_log_vars>>
       ELSE /\ self_log_vars' \in LogVarMoves(self_log_vars)
            /\ weights' \in WeightSpace
    /\ steps' = steps + 1
    /\ events' = Append(events, "step")
    /\ pc' = "batch"
    /\ UNCHANGED <<dataVars, opt_grads, loopVars, batchVars, batch_losses,
                   histVars, stds, runs>>

\* The last cell, run after the training cell (the cell between them plots
\* losses and binds nothing):
\* std_1 = torch.exp(log_vars[0])**0.5; std_2 = torch.exp(log_vars[1])**0.5
\* log_vars is the name the training loop bound; unbound, it is a NameError.
ReportStd ==
    /\ pc = "done"
    /\ IF log_vars = Unbound
       THEN pc' = "raised" /\ UNCHANGED stds
       ELSE /\ stds' = << Sqrt(Exp(LogVal(Deref(log_vars)[1]))),
                          Sqrt(Exp(LogVal(Deref(log_vars)[2]))) >>
            /\ pc' = "reported"
    /\ UNCHANGED <<dataVars, modelVars, loopVars, batchVars, events, batch_losses,
                   histVars, runs>>

NoLoss == [err |-> FALSE, v |-> FromInt(0)]

\* The notebook before the model is built: the generator, which numpy
\* starts in a state taken from the operating system, seeded
\* (np.random.seed, with 0 in the source; here any seed up to MaxSeed);
\* nothing else bound.  N is MaxN - 1 or MaxN, so that batch_size both
\* divides N and does not.
Init ==
    /\ pc = "build"
    /\ seed \in 0..MaxSeed
    /\ \E e \in RngStates : rng = np_random_seed(e, seed)
    /\ N \in (MaxN - 1)..MaxN
    /\ X = <<>> /\ Y1 = <<>> /\ Y2 = <<>> /\ gen0 = <<>> /\ shuffles = 0
    /\ weights = NoWeights /\ self_log_vars = <<>> /\ opt_grads = <<>> /\ steps = 0
    /\ epoch_it = 0 /\ j_it = 0 /\ i = -1 /\ j = -1
    /\ epoch_loss = FromInt(0) /\ losses = <<>>
    /\ X_ = <<>> /\ y = <<>> /\ y_hat = <<>> /\ log_vars = Unbound /\ loss = NoLoss
    /\ events = <<>> /\ batch_losses = <<>>
    /\ precisions = <<>> /\ epoch_batches = <<>> /\ stds = <<>>
    /\ runs = <<>>

\* every statement but the loss computation
OtherStatements ==
    \/ BuildModel
    \/ GenData
    \/ EpochHead
    \/ EpochsDone
    \/ Shuffle
    \/ BatchHead
    \/ AppendLoss
    \/ ZeroGrad
    \/ Forward
    \/ AccumulateLoss
    \/ Backward
    \/ OptimizerStep
    \/ ReportStd

Next == OtherStatements \/ ComputeLoss

Spec == Init /\ [][Next]_vars

\* ------------------------------------------- the loss combiner on its own
\* The loop positioned at "loss = 0" with arbitrary tensors bound to y_hat,
\* y and log_vars: T tasks, B rows, every prediction and target with its own
\* number of output dimensions, entries drawn from the random source, and
\* log_vars either all zero or drawn.
DrawnTensor(sd, k, B, D) == Randn(StreamAt(SeedState(sd), k * MaxB * MaxD), B, D).a

DrawnLogVar(sd, t) == (StreamAt(SeedState(sd), 7 * t) % (2 * MaxLV + 1)) - MaxLV

IdleCombine ==
    /\ rng = SeedState(seed) /\ N = 0
    /\ X = <<>> /\ Y1 = <<>> /\ Y2 = <<>> /\ gen0 = <<>> /\ shuffles = 0
    /\ weights = NoWeights /\ opt_grads = <<>> /\ steps = 0
    /\ epoch_it = 0 /\ j_it = 0 /\ i = -1 /\ j = -1
    /\ epoch_loss = FromInt(0) /\ losses = <<>>
    /\ X_ = <<>> /\ log_vars = ParamRef /\ loss = NoLoss
    /\ events = <<"zero_grad", "forward">> /\ batch_losses = << <<>> >>
    /\ precisions = <<>> /\ epoch_batches = <<>> /\ stds = <<>>
    /\ runs = <<>>

\* the scenario of one task and one example: prediction 5, target 3,
\* log_vars as built
InitScenario ==
    /\ seed = 0
    /\ y_hat = << << <<5>> >> >>
    /\ y = << << <<3>> >> >>
    /\ self_log_vars = InitLogVars

InitDrawn ==
    \E T \in 1..MaxT, B \in 1..MaxB, zero \in BOOLEAN :
      \E dp \in [1..T -> 1..MaxD], dt \in [1..T -> 1..MaxD] :
        /\ seed \in 0..MaxSeed
        /\ y_hat = [t \in 1..T |-> DrawnTensor(seed, 2 * t - 2, B, dp[t])]
        /\ y = [t \in 1..T |-> DrawnTensor(seed, 2 * t - 1, B, dt[t])]
        /\ self_log_vars = [t \in 1..T |-> IF zero THEN 0 ELSE DrawnLogVar(seed, t)]

InitCombine ==
    /\ pc = "loss"
    /\ InitScenario \/ InitDrawn
    /\ IdleCombine

NextCombine == ComputeLoss

SpecCombine == InitCombine /\ [][NextCombine]_vars

\* ----------------------------------------------------------------- claims
RECURSIVE ISum(_)
ISum(s) == IF s = <<>> THEN 0 ELSE s[1] + ISum(Tail(s))

Shape(t) == <<Len(t), Len(t[1])>>

\* every task's prediction has the shape of its target
ShapesMatch == \A t \in 1..Len(y) : Shape(y_hat[t]) = Shape(y[t])

\* the loss computation has returned a value
LossComputed == pc = "accum"

\* Sum over examples n, tasks t and output dimensions d of F(n, t, d), for
\* the tensors now bound to y_hat and y
SqErr(n, t, d) == (y_hat[t][n][d] - y[t][n][d]) * (y_hat[t][n][d] - y[t][n][d])

\* 2^MaxLV times the sum over n, t, d of exp(-log_var_t) * squared error
WeightedErrTotal ==
    ISum([n \in 1..Len(y[1]) |->
      ISum([t \in 1..Len(y) |->
        ISum([d \in 1..Len(y[t][1]) |->
          Pow2(MaxLV - Deref(log_vars)[t]) * SqErr(n, t, d)])])])

\* the sum over n, t, d of k_t, where log_var_t = k_t * ln 2
LogVarTotal ==
    ISum([n \in 1..Len(y[1]) |->
      ISum([t \in 1..Len(y) |->
        ISum([d \in 1..Len(y[t][1]) |-> Deref(log_vars)[t]])])])

\* the plain sum over n, t, d of the squared errors
SqErrTotal ==
    ISum([n \in 1..Len(y[1]) |->
      ISum([t \in 1..Len(y) |->
        ISum([d \in 1..Len(y[t][1]) |-> SqErr(n, t, d)])])])

\* C1: whenever the combiner has returned for predictions and targets of
\* matching shapes, the loss is the mean over the B examples of the sum over
\* tasks and output dimensions of exp(-log_var_i)*(y_hat - y)^2 + log_var_i:
\* its rational part is WeightedErrTotal / (2^MaxLV * B) and its ln 2 part
\* is LogVarTotal / B, log_var_i being counted once per output dimension.
C1_LossIsMeanOfTaskSums ==
    (LossComputed /\ ShapesMatch) =>
        /\ ~loss.err
        /\ loss.v.n * (Pow2(MaxLV) * Len(y[1])) = WeightedErrTotal * loss.v.d
        /\ loss.v.l * Len(y[1]) = LogVarTotal * loss.v.d

\* C1 witness: a loss computed for two tasks and two examples, one task with
\* two output dimensions and a non-zero log_var
C1_Witness ==
    /\ LossComputed /\ ShapesMatch
    /\ Len(y) = 2 /\ Len(y[1]) = 2
    /\ \E t \in 1..2 : Len(y[t][1]) = 2 /\ Deref(log_vars)[t] # 0 /\ loss.v.l # 0
    /\ loss.v.n # 0

\* all the log_vars the loop reads are zero
AllLogVarsZero == \A t \in 1..Len(Deref(log_vars)) : Deref(log_vars)[t] = 0

\* the scenario's tensors are bound: one task, one example, 5 against 3
ScenarioBound == y_hat = << << <<5>> >> >> /\ y = << << <<3>> >> >>

\* C2: with every log_var zero every precision is 1 and the loss is the
\* unweighted mean over the batch of the squared errors summed over tasks
\* and dimensions; for prediction 5 and target 3 it is exactly 4.
C2_ZeroLogVarsUnweighted ==
    (LossComputed /\ ShapesMatch /\ AllLogVarsZero) =>
        /\ \A t \in 1..Len(y) : Exp(NNeg(LogVal(Deref(log_vars)[t]))) = FromInt(1)
        /\ ~loss.err
        /\ loss.v.l = 0
        /\ loss.v.n * Len(y[1]) = SqErrTotal * loss.v.d
        /\ ScenarioBound => loss.v = FromInt(4)

\* C2 witness: the scenario has been computed
C2_Witness == LossComputed /\ AllLogVarsZero /\ ScenarioBound /\ loss.v = FromInt(4)

\* the loss computation has returned or raised
LossAttempted == pc \in {"accum", "raised"}

\* C3: a prediction whose shape differs from its target's makes the loss
\* computation fail; it never yields a value.
C3_MismatchRaises == (LossAttempted /\ ~ShapesMatch) => loss.err


\* ---------------------------------------------- two runs of the data pipeline
\* Two executions of the notebook's calls into np.random, side by side: each
\* starts with the generator in a state taken from the operating system,
\* seeds it with the same seed, generates the data and shuffles once per
\* epoch.  (The batch steps between two shuffles draw nothing from np.random.)
Runs == 1..2

RunStart(e) == [pc |-> "seed", rng |-> e, gen |-> <<>>,
                X |-> <<>>, Y1 |-> <<>>, Y2 |-> <<>>, perms |-> <<>>]

InitData ==
    /\ pc = "data"
    /\ seed \in 0..MaxSeed
    /\ N \in (MaxN - 1)..MaxN
    /\ runs \in [Runs -> {RunStart(e) : e \in RngStates}]
    /\ rng = 0
    /\ X = <<>> /\ Y1 = <<>> /\ Y2 = <<>> /\ gen0 = <<>> /\ shuffles = 0
    /\ weights = NoWeights /\ self_log_vars = <<>> /\ opt_grads = <<>> /\ steps = 0
    /\ epoch_it = 0 /\ j_it = 0 /\ i = -1 /\ j = -1
    /\ epoch_loss = FromInt(0) /\ losses = <<>>
    /\ X_ = <<>> /\ y = <<>> /\ y_hat = <<>> /\ log_vars = Unbound /\ loss = NoLoss
    /\ events = <<>> /\ batch_losses = <<>>
    /\ precisions = <<>> /\ epoch_batches = <<>> /\ stds = <<>>

notRuns == <<pc, dataVars, modelVars, loopVars, batchVars, events, batch_losses,
            histVars, stds>>

\* np.random.seed(seed)
RunSeed(r) ==
    /\ runs[r].pc = "seed"
    /\ runs' = [runs EXCEPT ![r].rng = np_random_seed(@, seed), ![r].pc = "gen"]
    /\ UNCHANGED notRuns

\* X, Y1, Y2 = gen_data(N)
RunGenData(r) ==
    /\ runs[r].pc = "gen"
    /\ LET g == gen_data(N, runs[r].rng)
       IN  runs' = [runs EXCEPT ![r].X = g.X, ![r].Y1 = g.Y1, ![r].Y2 = g.Y2,
                                ![r].gen = <<g.X, g.Y1, g.Y2>>,
                                ![r].rng = g.st, ![r].pc = "shuffle"]
    /\ UNCHANGED notRuns

\* X, Y1, Y2 = shuffle_data(X, Y1, Y2), once per epoch
RunShuffle(r) ==
    /\ runs[r].pc = "shuffle"
    /\ LET q == shuffle_data(runs[r].X, runs[r].Y1, runs[r].Y2, runs[r].rng)
       IN  runs' = [runs EXCEPT ![r].X = q.X, ![r].Y1 = q.Y1, ![r].Y2 = q.Y2,
                                ![r].perms = Append(@, q.s),
                                ![r].rng = q.st,
                                ![r].pc = IF Len(runs[r].perms) + 1 >= nb_epoch
                                          THEN "done" ELSE "shuffle"]
    /\ UNCHANGED notRuns

NextData == \E r \in Runs : RunSeed(r) \/ RunGenData(r) \/ RunShuffle(r)

SpecData == InitData /\ [][NextData]_vars

\* C8: two runs given the same seed produce the same gen_data output and, in
\* every epoch both have reached, the same shuffle permutation (hence the
\* same shuffled arrays).
C8_SameSeedSameData ==
    \A a \in Runs, b \in Runs :
      /\ (runs[a].gen # <<>> /\ runs[b].gen # <<>>) => runs[a].gen = runs[b].gen
      /\ \A e \in 1..Min(Len(runs[a].perms), Len(runs[b].perms)) :
            runs[a].perms[e] = runs[b].perms[e]
      /\ (runs[a].pc = "done" /\ runs[b].pc = "done") =>
            /\ runs[a].X = runs[b].X
            /\ runs[a].Y1 = runs[b].Y1
            /\ runs[a].Y2 = runs[b].Y2

\* C8 witness: both runs have finished, with equal outputs, a first permutation that
\* moved rows and a different second one
C8_Witness ==
    /\ runs[1].pc = "done" /\ runs[2].pc = "done"
    /\ runs[1].gen = runs[2].gen
    /\ runs[1].perms = runs[2].perms
    /\ runs[1].perms[1] # Arange(N)
    /\ runs[1].perms[1] # runs[1].perms[2]

\* -------------------------------------------------- claims on the training run
StepOrder == <<"zero_grad", "forward", "loss", "backward", "step">>

\* how many of the five calls the batch step has made when it is at pc
CallsMadeAt(p) ==
    CASE p = "zero_grad" -> 0
      [] p = "forward"   -> 1
      [] p = "loss"      -> 2
      [] p \in {"accum", "backward"} -> 3
      [] p = "step"      -> 4
      [] OTHER           -> 5

InBatchStep == pc \in {"zero_grad", "forward", "loss", "accum", "backward", "step"}

\* C4: within a batch step the five calls happen in the order zero_grad,
\* forward, loss, backward, step, each once: the calls made so far are the
\* prefix of that order the position stands for, and a finished batch step
\* has made all five.  When the optimizer steps, the gradient buffers hold
\* the backward pass of the current batch and nothing else.
C4_BatchStepOrder ==
    /\ InBatchStep => events = SubSeq(StepOrder, 1, CallsMadeAt(pc))
    /\ (pc = "batch" /\ j_it > 0) => events = StepOrder
    /\ pc = "step" => opt_grads = << <<epoch_it - 1, j>> >>

\* C4 witness: the second batch step of the second epoch has just stepped
C4_Witness ==
    /\ pc = "batch" /\ epoch_it = 2 /\ j_it = 2
    /\ events = StepOrder /\ steps = 4

\* C5: log_vars is created as num_tasks zeros when the model is built, and
\* after that no statement but optimizer.step() changes its value.
C5_OnlyStepChangesLogVars ==
    [][ /\ pc = "build" => self_log_vars' = [t \in 1..num_tasks |-> 0]
        /\ pc \notin {"build", "step"} => self_log_vars' = self_log_vars ]_vars

\* C5 witness: a forward pass of the second epoch has returned log_vars that
\* earlier optimizer steps have moved away from zero
C5_Witness ==
    /\ pc = "loss" /\ epoch_it = 2
    /\ Deref(log_vars) = self_log_vars
    /\ \A t \in 1..num_tasks : self_log_vars[t] # 0

\* how often row r occurs among rows
RowCount(rows, r) == Cardinality({n \in DOMAIN rows : rows[n] = r})

DataBound == pc \notin {"build", "gen"}

\* C6: after any number of shuffles the rows (X[n], Y1[n], Y2[n]) are the
\* rows gen_data produced, each as often as gen_data produced it.
C6_ShuffleKeepsRows ==
    DataBound =>
        /\ Len(X) = Len(gen0) /\ Len(Y1) = Len(gen0) /\ Len(Y2) = Len(gen0)
        /\ \A n \in DOMAIN gen0 :
             RowCount(Rows(X, Y1, Y2), gen0[n]) = RowCount(gen0, gen0[n])

\* C6 witness: two shuffles done, the rows in another order than generated
C6_Witness ==
    /\ shuffles = 2
    /\ Rows(X, Y1, Y2) # gen0
    /\ \E n \in DOMAIN gen0, m \in DOMAIN gen0 : gen0[n][2] # gen0[m][2]

\* the k-th variate drawn after np.random.seed(seed)
Draw(k) == Variate(StreamAt(SeedState(seed), k))

\* C7: gen_data(N) returns N rows with Y1[n] = 2*X[n] + 8 + 10*e1[n] and
\* Y2[n] = 3*X[n] + 3 + e2[n], X being the first N variates drawn, e1 the
\* next N and e2 the N after those.
C7_GenDataFormula ==
    DataBound =>
        /\ Len(gen0) = N
        /\ \A n \in 1..N :
             /\ gen0[n][1] = <<Draw(n)>>
             /\ gen0[n][2] = <<2 * Draw(n) + 8 + 10 * Draw(N + n)>>
             /\ gen0[n][3] = <<3 * Draw(n) + 3 + Draw(2 * N + n)>>

\* C7 witness: data generated in which some row's X, e1 and e2 all differ
C7_Witness ==
    /\ pc = "epoch" /\ Len(gen0) = N
    /\ \E n \in 1..N : /\ Draw(n) # Draw(N + n)
                       /\ Draw(N + n) # Draw(2 * N + n)
                       /\ Draw(n) # Draw(2 * N + n)

\* the statements a batch step, an epoch and the run execute
PerBatch == Len(StepOrder) + 2
PerEpoch == 3 + PerBatch * (N \div batch_size)

\* the statements still to execute from the current position
Rank ==
    LET epochsLeft == (nb_epoch - epoch_it) * PerEpoch + 2
        batchesLeft == 1 + PerBatch * ((N \div batch_size) - j_it)
    IN  CASE pc = "build"   -> 2 + nb_epoch * PerEpoch + 2
          [] pc = "gen"     -> 1 + nb_epoch * PerEpoch + 2
          [] pc = "epoch"   -> epochsLeft
          [] pc = "shuffle" -> epochsLeft + PerEpoch - 1
          [] pc = "batch"   -> epochsLeft + batchesLeft
          [] pc = "zero_grad" -> epochsLeft + batchesLeft + 6
          [] pc = "forward"   -> epochsLeft + batchesLeft + 5
          [] pc = "loss"      -> epochsLeft + batchesLeft + 4
          [] pc = "accum"     -> epochsLeft + batchesLeft + 3
          [] pc = "backward"  -> epochsLeft + batchesLeft + 2
          [] pc = "step"      -> epochsLeft + batchesLeft + 1
          [] pc = "done"    -> 1
          [] OTHER          -> 0

\* the run is inside an epoch's body
InEpoch == pc \in {"shuffle", "batch"} \/ InBatchStep

\* what the counters are at every position of the run
CountsInv ==
    /\ Rank >= 0
    /\ pc # "raised"
    /\ pc # "reported" => (AtLoss \/ ENABLED OtherStatements)
    /\ shuffles = epoch_it - (IF pc = "shuffle" THEN 1 ELSE 0)
    /\ Len(losses) = epoch_it - (IF InEpoch THEN 1 ELSE 0)
    /\ InEpoch =>
         steps = (epoch_it - 1) * (N \div batch_size)
                 + (IF pc = "shuffle" THEN 0
                    ELSE IF InBatchStep THEN j_it - 1 ELSE j_it)
    /\ pc \in {"done", "reported"} =>
         /\ epoch_it = nb_epoch
         /\ shuffles = nb_epoch
         /\ steps = nb_epoch * (N \div batch_size)
         /\ Len(losses) = nb_epoch
         /\ 2000 * (100 \div 20) = 10000

\* C9: the run terminates (every statement lowers the number of statements
\* left, which is never negative, no tensor operation raises, and
\* every position but the end has a statement to execute), having
\* executed nb_epoch epochs of one shuffle and N // batch_size batch steps
\* each: nb_epoch * (N // batch_size) optimizer steps, 2000 * 5 = 10000 with
\* the source's values, and one entry of losses per epoch.
C9_RunTerminatesWithCounts ==
    [][CountsInv /\ CountsInv' /\ Rank' < Rank]_vars

\* C9 witness: a run over the larger data set has finished
C9_Witness ==
    /\ pc = "done" /\ N = MaxN
    /\ steps = nb_epoch * (N \div batch_size) /\ steps >= 2
    /\ Len(losses) = nb_epoch

\* the batch-size-weighted average of the batch losses bl over n samples
WeightedAverage(bl, n) ==
    NScale(NSum([b \in 1..Len(bl) |-> NScale(bl[b], batch_size, 1)]), 1, n)

\* C10: the value recorded for an epoch is (sum over the epoch's batches of
\* batch_size * batch_loss) / N, nothing of an earlier epoch in it; when
\* batch_size divides N it is the arithmetic mean of the epoch's batch
\* losses.  The accumulator is 0 at the start of every epoch.
C10_EpochLossIsWeightedAverage ==
    /\ \A e \in 1..Len(losses) :
         /\ losses[e] = WeightedAverage(batch_losses[e], N)
         /\ N % batch_size = 0 =>
              losses[e] = NScale(NSum(batch_losses[e]), 1, Len(batch_losses[e]))
    /\ pc = "shuffle" => epoch_loss = FromInt(0)

\* C10 witness: two epochs recorded, with different non-zero values, for an
\* N that batch_size divides
C10_Witness ==
    /\ Len(losses) = 2 /\ N % batch_size = 0
    /\ losses[1] # losses[2]
    /\ losses[1] # FromInt(0) /\ losses[1].l # 0

\* a precision is positive: a rational number with positive numerator and
\* denominator and no ln 2 part
Positive(p) == p.l = 0 /\ p.n > 0 /\ p.d > 0

\* C11: every precision exp(-log_var_i) a task loop has computed is strictly
\* greater than 0, and so is the precision of every value the optimizer has
\* left in log_vars, used yet or not.
C11_PrecisionPositive ==
    /\ \A t \in 1..Len(precisions) : Positive(precisions[t])
    /\ \A t \in 1..Len(self_log_vars) : Positive(Precision(self_log_vars, t))

\* C11 witness: a loss computed with one log_var at the top of the range,
\* its precision below 1, and another at the bottom, its precision above 1
C11_Witness ==
    /\ LossComputed /\ steps > 0
    /\ \E t, u \in 1..Len(precisions) :
         /\ self_log_vars[t] = MaxLV /\ precisions[t].n < precisions[t].d
         /\ self_log_vars[u] = -MaxLV /\ precisions[u].n > precisions[u].d

\* C13: the task loop's reuse of the name i has no effect.  Whatever i
\* holds when a loss is computed (the epoch index, or what an earlier task
\* loop left), the loop visits every task once: one precision per task, i
\* left at the last task index, and the loss the mean over the batch of
\* every task's term.  The epoch loop is not disturbed: the index bound at
\* the head of an epoch is the number of epochs completed so far, so the
\* indices are 0, 1, ..., each once, and the loop ends after nb_epoch.
C13_SharedLoopVariable ==
    [][ /\ (pc = "epoch" /\ pc' = "shuffle") =>
              (i' = Len(losses) /\ i' < nb_epoch)
        /\ (pc = "epoch" /\ pc' = "done") => Len(losses) = nb_epoch
        /\ (pc = "loss" /\ pc' = "accum") =>
              /\ i' = Len(y) - 1
              /\ Len(precisions') = Len(y)
              /\ loss'.v.n * (Pow2(MaxLV) * Len(y[1])) = WeightedErrTotal * loss'.v.d
              /\ loss'.v.l * Len(y[1]) = LogVarTotal * loss'.v.d ]_vars

\* C13 witness: a loss computed in the second epoch, after every task loop
\* of the first epoch had rebound i
C13_Witness ==
    /\ LossComputed /\ epoch_it = 2
    /\ Len(batch_losses[1]) = NumBatches /\ NumBatches > 0
    /\ i = Len(y) - 1

\* p is 2^-k
IsPow2Neg(p, k) == p.l = 0 /\ p.n * Pow2(MaxLV + k) = p.d * Pow2(MaxLV)

\* the loss of the current batch step has been computed, the optimizer has
\* not stepped yet
AfterLoss == pc \in {"accum", "backward", "step"}

\* C14: in every batch step the precision of task i is exp(-log_var_i) for
\* the value log_var_i has at that step, which is the value the most recent
\* optimizer step left, and 1 (log_var_i = 0) before the first step.
C14_PrecisionFromCurrentLogVar ==
    AfterLoss =>
        /\ Len(precisions) = Len(self_log_vars)
        /\ \A t \in 1..Len(precisions) :
             /\ IsPow2Neg(precisions[t], self_log_vars[t])
             /\ steps = 0 => precisions[t] = FromInt(1)

\* C14 witness: a loss computed after an optimizer step, with a precision
\* that is not the initial 1
C14_Witness ==
    /\ LossComputed /\ steps > 1
    /\ \E t \in 1..Len(precisions) :
         self_log_vars[t] # 0 /\ precisions[t] # FromInt(1)

\* rows b*batch_size .. (b+1)*batch_size - 1 (0-based) of a
BatchRange(a, b) == [k \in 1..batch_size |-> a[b * batch_size + k]]

\* the batches of the epoch so far that took the row at position p (1-based)
UsedIn(p) ==
    { b \in 1..Len(epoch_batches) :
        \E k \in 1..Len(epoch_batches[b][1]) : (b - 1) * batch_size + k = p }

\* every batch of the current epoch has been taken
BatchesTaken == pc = "batch" /\ j_it >= N \div batch_size

\* C15: the batches of an epoch are the row ranges
\* [b*batch_size, (b+1)*batch_size) for b = 0 .. N//batch_size - 1 of the
\* arrays as the epoch's shuffle left them, the same range of X, Y1 and Y2.
\* Once the epoch's batches are taken, every row position up to
\* N - N mod batch_size has been in exactly one batch and the
\* N mod batch_size positions after it in none.
C15_BatchesPartitionEpoch ==
    (pc = "batch" \/ InBatchStep) =>
        /\ shuffles = epoch_it
        /\ Len(epoch_batches) <= N \div batch_size
        /\ \A b \in 1..Len(epoch_batches) :
             epoch_batches[b] = << BatchRange(X, b - 1), BatchRange(Y1, b - 1),
                                   BatchRange(Y2, b - 1) >>
        /\ pc \in {"loss", "accum", "backward", "step"} =>
             /\ Len(epoch_batches) = j + 1
             /\ <<X_, y[1], y[2]>> = epoch_batches[j + 1]
        /\ BatchesTaken =>
             /\ Len(epoch_batches) = N \div batch_size
             /\ \A p \in 1..N :
                  Cardinality(UsedIn(p)) =
                    IF p <= N - (N % batch_size) THEN 1 ELSE 0
             /\ N % batch_size = 0 => \A p \in 1..N : Cardinality(UsedIn(p)) = 1

\* C15 witness: the second epoch's two batches taken from an array of
\* distinct rows that batch_size divides
C15_Witness ==
    /\ BatchesTaken /\ epoch_it = 2
    /\ N % batch_size = 0 /\ Len(epoch_batches) = 2
    /\ \A p, q \in 1..N : p # q => Rows(X, Y1, Y2)[p] # Rows(X, Y1, Y2)[q]

\* the output of the shared input layer, and of each head, for the batch X_
Hidden == ReLU(Linear(weights.in_w, weights.in_b, X_))
Lin1Out == Linear(weights.l1_w, weights.l1_b, Hidden)
Lin2Out == Linear(weights.l2_w, weights.l2_b, Hidden)

\* 2^MaxLV times the sum over the batch of
\* exp(-log_var[0]) * (Lin1 - Y1)^2 + exp(-log_var[1]) * (Lin2 - Y2)^2
PairedErrTotal ==
    ISum([n \in 1..Len(X_) |->
        Pow2(MaxLV - self_log_vars[1])
          * (Lin1Out[n][1] - Y1[j * batch_size + n][1])
          * (Lin1Out[n][1] - Y1[j * batch_size + n][1])
      + Pow2(MaxLV - self_log_vars[2])
          * (Lin2Out[n][1] - Y2[j * batch_size + n][1])
          * (Lin2Out[n][1] - Y2[j * batch_size + n][1])])

\* C16: task index 0 pairs Lin1's prediction with the batch's slice of Y1
\* and with log_var[0], task index 1 pairs Lin2's prediction with the slice
\* of Y2 and with log_var[1]: the tensors bound after the forward pass are
\* these, and the loss is the mean over the batch of
\* exp(-log_var[0])*(Lin1 - Y1)^2 + log_var[0]
\* + exp(-log_var[1])*(Lin2 - Y2)^2 + log_var[1].
C16_TaskIndexPairing ==
    /\ (pc = "loss" \/ AfterLoss) =>
         /\ y_hat = <<Lin1Out, Lin2Out>>
         /\ y = <<BatchRange(Y1, j), BatchRange(Y2, j)>>
    /\ AfterLoss =>
         /\ loss.v.n * (Pow2(MaxLV) * Len(X_)) = PairedErrTotal * loss.v.d
         /\ loss.v.l = (self_log_vars[1] + self_log_vars[2]) * loss.v.d
         /\ precisions = << Precision(self_log_vars, 1), Precision(self_log_vars, 2) >>

\* C16 witness: a loss computed where the two heads' predictions, the two
\* targets and the two log_vars all differ
C16_Witness ==
    /\ LossComputed
    /\ Lin1Out # Lin2Out /\ y[1] # y[2]
    /\ self_log_vars[1] # self_log_vars[2]
    /\ \A n \in 1..Len(X_) : Lin1Out[n] # y[2][n] /\ Lin2Out[n] # y[1][n]

\* v is 2^k
IsPow2(v, k) == v.l = 0 /\ v.n * Pow2(MaxLV) = v.d * Pow2(MaxLV + k)

\* C17: the two standard deviations of the last cell are exp(log_var_i)**0.5
\* for log_var as the final optimizer step left it: the name log_vars bound
\* by the last forward pass denotes the parameter itself, whose value it
\* follows through every optimizer step, not a copy made at the forward
\* pass.
C17_StdFromFinalLogVars ==
    /\ log_vars # Unbound => Deref(log_vars) = self_log_vars
    /\ pc = "reported" =>
         /\ steps = nb_epoch * (N \div batch_size)
         /\ Len(stds) = 2
         /\ \A t \in 1..2 : IsPow2(stds[t].sq, self_log_vars[t])

\* C17 witness: the standard deviations reported after a final optimizer
\* step that changed log_vars (the last loss, computed before it, has
\* another sum of log_vars), neither of them 1
C17_Witness ==
    /\ pc = "reported"
    /\ loss.v.l # (self_log_vars[1] + self_log_vars[2]) * loss.v.d
    /\ \A t \in 1..2 : stds[t].sq # FromInt(1)


=============================================================================
